---- MODULE Spec2Model ----
(***************************************************************************)
(* A model of the RT-MHR evaluation harness:                               *)
(*   src/evaluation/rtmhr_evaluation.py  the sweep (parameter space, the   *)
(*       worker pool running one simulator process per trial, the          *)
(*       analysis of the result files) and its main();                     *)
(*   src/scaling_comparison.py           the pairwise winner rule.         *)
(*                                                                         *)
(* Conventions.  A file name is the tuple of the fields between its        *)
(* underscores (the prefix "results_" and the suffix ".csv" removed), so   *)
(* that str.split('_') is the tuple itself.  A speed is held in tenths of  *)
(* a m/s (50 is the Python int 5, 25 the Python float 2.5).  A metric of   *)
(* the comparison is held in hundredths (10 is 0.1).                       *)
(***************************************************************************)
EXTENDS Integers, Sequences, FiniteSets, TLC

VARIABLES
    protocols,          \* self.protocols
    node_counts,        \* self.node_counts
    speeds,             \* self.speeds
    traffic_loads,      \* self.traffic_loads
    seeds,              \* self.seeds
    params_list,        \* run_all_simulations: params_list
    mode,               \* main: args.mode
    max_workers,        \* main: args.workers
    pc,                 \* where main() is
    fut,                \* per trial: the state of its future in the pool
    proc,               \* per trial: the state of its simulator process
    outcome,            \* per trial: what run_single_simulation returned
    log,                \* per trial: the message run_single_simulation printed
    disk,               \* the result files in self.results_dir
    completed_results,  \* run_all_simulations: completed_results
    all_data,           \* analyze_results: all_data
    msgs,               \* what main() and analyze_results printed
    reports,            \* the report files analyze_results wrote
    rtmhr,              \* scaling_comparison.main: comparison['rtmhr']
    aodv,               \* scaling_comparison.main: comparison['aodv']
    winner,             \* scaling_comparison.main: winner
    winnerX,            \* the same rule with the two protocols exchanged
    df,                 \* generate_summary_stats: df, one row per trial
    summary_stats,      \* generate_summary_stats: summary_stats['protocol_comparison']
    flow_table,         \* analyze_results: df, the rows read from one result file
    metrics,            \* analyze_results: what the file appends to all_data
    parsed,             \* analyze_results: the file has been processed
    stdout,             \* scaling_test: the simulator's output, per network size
    test_results,       \* scaling_test main: results, the (nodes, metrics) kept
    report,             \* scaling_test main: the line printed after each test
    table,              \* scaling_test main: the rows of the summary table
    max_working_nodes,  \* scaling_test main: largest fully-connected network
    cmp_results,        \* scaling_comparison main: results, the (nodes, comparison) kept
    cmp_tested,         \* scaling_comparison main: how many of test_sizes are done
    cmp_pc,             \* scaling_comparison main: where main is
    cmp_summary         \* scaling_comparison main: what lines 93-166 have printed

vars == <<protocols, node_counts, speeds, traffic_loads, seeds, params_list,
          mode, max_workers, pc, fut, proc, outcome, log, disk,
          completed_results, all_data, msgs, reports,
          rtmhr, aodv, winner, winnerX, df, summary_stats,
          flow_table, metrics, parsed,
          stdout, test_results, report, table, max_working_nodes,
          cmp_results, cmp_tested, cmp_pc, cmp_summary>>

aggVars == <<df, summary_stats>>
rollupVars == <<flow_table, metrics, parsed>>
testVars == <<stdout, test_results, report, table, max_working_nodes>>
scalingVars == <<cmp_results, cmp_tested, cmp_pc, cmp_summary>>
otherVars == <<aggVars, rollupVars, testVars, scalingVars>>
factorVars == <<protocols, node_counts, speeds, traffic_loads, seeds>>
poolVars == <<fut, proc, outcome, log>>
analysisVars == <<all_data, msgs, reports>>
cmpVars == <<rtmhr, aodv, winner, winnerX>>

(***************************************************************************)
(* Bounds of the model.                                                    *)
(***************************************************************************)
MaxLevels == 2      \* longest factor-level list drawn for the parameter space
MaxSeeds == 3       \* most seeds (trials) of a sweep run through the pool
MaxWorkers == 2     \* largest worker pool
MaxUnit == 3        \* metrics of the comparison range over 0, 0.05 .. MaxUnit*0.05

(***************************************************************************)
(* Sequences.                                                              *)
(***************************************************************************)
SeqsUpTo(S, n) == UNION {[1..k -> S] : k \in 0..n}

NoRepeats(s) == \A i, j \in 1..Len(s) : i # j => s[i] # s[j]

(***************************************************************************)
(* The parameter space: the five nested loops of run_all_simulations.      *)
(***************************************************************************)
\* a faulty innermost loop: every pass appends the first seed
LoopSeedsFirstOnly(acc, protocol, nodes, speed, traffic, i) ==
    acc \o [k \in 1..Len(seeds) |-> <<protocol, nodes, speed, traffic, seeds[1]>>]

RECURSIVE LoopSeeds(_, _, _, _, _, _)
LoopSeeds(acc, protocol, nodes, speed, traffic, i) ==
    IF i > Len(seeds) THEN acc
    ELSE LoopSeeds(Append(acc, <<protocol, nodes, speed, traffic, seeds[i]>>),
                   protocol, nodes, speed, traffic, i + 1)

RECURSIVE LoopTraffic(_, _, _, _, _)
LoopTraffic(acc, protocol, nodes, speed, i) ==
    IF i > Len(traffic_loads) THEN acc
    ELSE LoopTraffic(LoopSeeds(acc, protocol, nodes, speed, traffic_loads[i], 1),
                     protocol, nodes, speed, i + 1)

RECURSIVE LoopSpeeds(_, _, _, _)
LoopSpeeds(acc, protocol, nodes, i) ==
    IF i > Len(speeds) THEN acc
    ELSE LoopSpeeds(LoopTraffic(acc, protocol, nodes, speeds[i], 1),
                    protocol, nodes, i + 1)

RECURSIVE LoopNodes(_, _, _)
LoopNodes(acc, protocol, i) ==
    IF i > Len(node_counts) THEN acc
    ELSE LoopNodes(LoopSpeeds(acc, protocol, node_counts[i], 1), protocol, i + 1)

RECURSIVE LoopProtocols(_, _)
LoopProtocols(acc, i) ==
    IF i > Len(protocols) THEN acc
    ELSE LoopProtocols(LoopNodes(acc, protocols[i], 1), i + 1)

ParamsList == LoopProtocols(<<>>, 1)

Trials == 1..Len(params_list)

(***************************************************************************)
(* Artifact names of one trial.  Python formats the speed with str(): an   *)
(* int as its digits, a float with its fraction.  The generated simulator  *)
(* holds the speed in a double and names its CSV with                      *)
(* std::to_string((int)maxSpeed), which truncates.                         *)
(***************************************************************************)
PyStr(speed) ==
    IF speed % 10 = 0 THEN ToString(speed \div 10)
    ELSE ToString(speed \div 10) \o "." \o ToString(speed % 10)

CppIntStr(speed) == ToString(speed \div 10)

\* f"sim_{protocol}_{nodes}_{speed}_{traffic}_{seed}.cc"
ScriptFile(p) == <<"sim", p[1], ToString(p[2]), PyStr(p[3]), p[4], ToString(p[5])>>

\* f"rtmhr_eval_{protocol}_{nodes}_{speed}_{traffic}_{seed}.cc"
ScratchFile(p) ==
    <<"rtmhr", "eval", p[1], ToString(p[2]), PyStr(p[3]), p[4], ToString(p[5])>>

\* the name run_single_simulation returns:
\* f"results_{protocol}_{nodes}_{speed}_{traffic}_{seed}.csv"
ResultFileReturned(p) == <<p[1], ToString(p[2]), PyStr(p[3]), p[4], ToString(p[5])>>

\* the name the simulator opens: "results_" + protocol + "_" +
\* to_string(nNodes) + "_" + to_string((int)maxSpeed) + "_" + ...
ResultFileWritten(p) == <<p[1], ToString(p[2]), CppIntStr(p[3]), p[4], ToString(p[5])>>

(***************************************************************************)
(* The result directory.  A file is [name, kind, origin]: kind says what   *)
(* pandas finds in it ("rows": one or more well-formed flow rows; "empty": *)
(* the header and no row; "bad": a missing column, a malformed value or an *)
(* unreadable table); origin says whether this run's simulator wrote it    *)
(* ("run") or it was there before main() started ("stale").                *)
(***************************************************************************)
Kinds == {"rows", "empty", "bad"}

File(name, kind, origin) == [name |-> name, kind |-> kind, origin |-> origin]

\* the simulator's std::ofstream truncates and rewrites its own file
WriteFile(d, name, kind) ==
    {f \in d : f.name # name} \cup {File(name, kind, "run")}

\* files an earlier run or the user may have left in rtmhr_results
StaleCandidates ==
    { File(<<"rtmhr", "30", "5", "low", "1">>, "rows", "stale"),
      File(<<"rtmhr", "30", "5", "low", "1", "old">>, "rows", "stale"),
      File(<<"aodv", "30", "5", "low", "1">>, "empty", "stale"),
      File(<<"summary">>, "rows", "stale") }

(***************************************************************************)
(* The worker pool: ThreadPoolExecutor(max_workers).map over params_list.  *)
(***************************************************************************)
NoOutcome == [kind |-> "unset", name |-> <<>>]
ReturnedNone == [kind |-> "none", name |-> <<>>]
Raised == [kind |-> "raise", name |-> <<>>]
ReturnedFile(name) == [kind |-> "file", name |-> name]

Busy == Cardinality({i \in DOMAIN fut : fut[i] = "RUNNING"})

\* the work queue is FIFO: a free worker takes the oldest pending item
NextPending(i) ==
    /\ i \in DOMAIN fut
    /\ fut[i] = "PENDING"
    /\ \A j \in DOMAIN fut : j < i => fut[j] # "PENDING"

\* run_all_simulations, lines 257-266: build params_list
BuildParams ==
    /\ pc = "start"
    /\ mode \in {"simulate", "both"}
    /\ params_list' = ParamsList
    /\ pc' = "built"
    /\ UNCHANGED <<otherVars, factorVars, mode, max_workers, poolVars, disk,
                   completed_results, analysisVars, cmpVars>>

\* executor.map submits one future per element of params_list
Submit ==
    /\ pc = "built"
    /\ fut' = [i \in Trials |-> "PENDING"]
    /\ proc' = [i \in Trials |-> "none"]
    /\ outcome' = [i \in Trials |-> NoOutcome]
    /\ log' = [i \in Trials |-> ""]
    /\ pc' = "pool"
    /\ UNCHANGED <<otherVars, factorVars, params_list, mode, max_workers, disk,
                   completed_results, analysisVars, cmpVars>>

\* a faulty pool: a worker is always found
NoPoolBound == TRUE

\* A worker is free when fewer than max_workers calls are in progress.
WorkerFree == Busy < max_workers

\* A free worker takes trial i and runs run_single_simulation up to the
\* launch of ./ns3 (lines 216-238).  Writing or copying the script is
\* outside the try block: an error there leaves the function as an
\* exception, held by the future.  An error launching ./ns3 is inside it:
\* "Simulation error" is printed and None returned.
StartTrial(i) ==
    /\ pc \in {"pool", "raising"}
    /\ WorkerFree
    /\ NextPending(i)
    /\ \E how \in {"launched", "script_error", "launch_error"} :
         CASE how = "launched" ->
                /\ fut' = [fut EXCEPT ![i] = "RUNNING"]
                /\ proc' = [proc EXCEPT ![i] = "alive"]
                /\ UNCHANGED <<outcome, log>>
           [] how = "script_error" ->
                /\ fut' = [fut EXCEPT ![i] = "FINISHED"]
                /\ outcome' = [outcome EXCEPT ![i] = Raised]
                /\ UNCHANGED <<proc, log>>
           [] how = "launch_error" ->
                /\ fut' = [fut EXCEPT ![i] = "FINISHED"]
                /\ outcome' = [outcome EXCEPT ![i] = ReturnedNone]
                /\ log' = [log EXCEPT ![i] = "error"]
                /\ UNCHANGED proc
    /\ UNCHANGED <<otherVars, factorVars, params_list, mode, max_workers, pc, disk,
                   completed_results, analysisVars, cmpVars>>

\* The simulator ends by itself (lines 237-244).  With exit status 0 it has
\* written its CSV and the function returns the result file name; with
\* another status "Simulation failed" is printed and None returned.
ProcessExits(i) ==
    /\ pc \in {"pool", "raising"}
    /\ i \in DOMAIN proc
    /\ proc[i] = "alive"
    /\ proc' = [proc EXCEPT ![i] = "exited"]
    /\ fut' = [fut EXCEPT ![i] = "FINISHED"]
    /\ \/ \E kind \in Kinds :
            /\ disk' = WriteFile(disk, ResultFileWritten(params_list[i]), kind)
            /\ outcome' = [outcome EXCEPT
                             ![i] = ReturnedFile(ResultFileReturned(params_list[i]))]
            /\ UNCHANGED log
       \/ /\ outcome' = [outcome EXCEPT ![i] = ReturnedNone]
          /\ log' = [log EXCEPT ![i] = "failed"]
          /\ UNCHANGED disk
    /\ UNCHANGED <<otherVars, factorVars, params_list, mode, max_workers, pc,
                   completed_results, analysisVars, cmpVars>>

\* subprocess.run(..., timeout=300): the 300 s pass with the simulator alive
TimeoutExpires(i) ==
    /\ pc \in {"pool", "raising"}
    /\ i \in DOMAIN proc
    /\ proc[i] = "alive"
    /\ proc' = [proc EXCEPT ![i] = "timedout"]
    /\ UNCHANGED <<otherVars, factorVars, params_list, mode, max_workers, pc, fut, outcome,
                   log, disk, completed_results, analysisVars, cmpVars>>

\* a faulty timeout path: None is returned and the child left running
TerminateTimedOutNoKill(i) ==
    /\ pc \in {"pool", "raising"}
    /\ i \in DOMAIN proc
    /\ proc[i] = "timedout"
    /\ fut' = [fut EXCEPT ![i] = "FINISHED"]
    /\ outcome' = [outcome EXCEPT ![i] = ReturnedNone]
    /\ log' = [log EXCEPT ![i] = "timeout"]
    /\ UNCHANGED <<otherVars, factorVars, params_list, mode, max_workers, pc, proc, disk,
                   completed_results, analysisVars, cmpVars>>

\* subprocess.run kills the child and waits for it, then raises
\* TimeoutExpired; line 246 catches it, prints "Simulation timed out" and
\* returns None.
TerminateTimedOut(i) ==
    /\ pc \in {"pool", "raising"}
    /\ i \in DOMAIN proc
    /\ proc[i] = "timedout"
    /\ proc' = [proc EXCEPT ![i] = "killed"]
    /\ fut' = [fut EXCEPT ![i] = "FINISHED"]
    /\ outcome' = [outcome EXCEPT ![i] = ReturnedNone]
    /\ log' = [log EXCEPT ![i] = "timeout"]
    /\ UNCHANGED <<otherVars, factorVars, params_list, mode, max_workers, pc, disk,
                   completed_results, analysisVars, cmpVars>>

\* list(executor.map(...)) takes the results in submission order: the first
\* future that holds an exception re-raises it once every earlier future has
\* finished.  The iterator's finally clause cancels the futures not yet
\* started; the with block then waits for the running ones.
MapRaises ==
    /\ pc = "pool"
    /\ \E i \in DOMAIN fut :
         /\ outcome[i] = Raised
         /\ \A j \in DOMAIN fut : j < i => fut[j] = "FINISHED" /\ outcome[j] # Raised
    /\ fut' = [i \in DOMAIN fut |-> IF fut[i] = "PENDING" THEN "CANCELLED" ELSE fut[i]]
    /\ pc' = "raising"
    /\ UNCHANGED <<otherVars, factorVars, params_list, mode, max_workers, proc, outcome, log,
                   disk, completed_results, analysisVars, cmpVars>>

\* executor.__exit__ has joined the workers: the exception leaves
\* run_all_simulations and main()
SweepAborts ==
    /\ pc = "raising"
    /\ Busy = 0
    /\ pc' = "sweep_crashed"
    /\ UNCHANGED <<otherVars, factorVars, params_list, mode, max_workers, poolVars, disk,
                   completed_results, analysisVars, cmpVars>>

RECURSIVE FilterNotNone(_, _)
FilterNotNone(results, i) ==
    IF i > Len(results) THEN <<>>
    ELSE IF results[i].kind = "none" THEN FilterNotNone(results, i + 1)
    ELSE <<results[i].name>> \o FilterNotNone(results, i + 1)

\* a faulty join: the results are filtered without waiting for
\* the futures
JoinAndFilterEarly ==
    /\ pc = "pool"
    /\ \A i \in DOMAIN fut : outcome[i] # Raised
    /\ completed_results' = FilterNotNone(outcome, 1)
    /\ IF mode = "simulate"
       THEN /\ msgs' = msgs \cup {"simulations_completed"}
            /\ pc' = "done"
       ELSE /\ pc' = "analyze"
            /\ UNCHANGED msgs
    /\ UNCHANGED <<otherVars, factorVars, params_list, mode, max_workers, poolVars, disk,
                   all_data, reports, cmpVars>>

\* Every future has a result: the with block ends, lines 273-277 keep the
\* results that are not None, and main() (lines 515-519) goes on.
JoinAndFilter ==
    /\ pc = "pool"
    /\ \A i \in DOMAIN fut : fut[i] = "FINISHED" /\ outcome[i] # Raised
    /\ completed_results' = FilterNotNone(outcome, 1)
    /\ IF mode = "simulate"
       THEN /\ msgs' = msgs \cup {"simulations_completed"}
            /\ pc' = "done"
       ELSE /\ pc' = "analyze"
            /\ UNCHANGED msgs
    /\ UNCHANGED <<otherVars, factorVars, params_list, mode, max_workers, poolVars, disk,
                   all_data, reports, cmpVars>>

(***************************************************************************)
(* analyze_results.                                                        *)
(***************************************************************************)
\* int(text) of a file-name field: the decimal literals the model writes
IsIntText(text) == \E n \in 0..99 : ToString(n) = text

ParseInt(text) == CHOOSE n \in 0..99 : ToString(n) = text

\* line 294: protocol, nodes, speed, traffic, seed = parts raises ValueError
\* when parts holds more than five fields (fewer were skipped at line 291)
UnpackRaises(f) == Len(f.name) > 5

\* lines 285-320, one file: does it append a row to all_data?
YieldsRow(f) ==
    /\ Len(f.name) = 5
    /\ f.kind = "rows"
    /\ IsIntText(f.name[2]) /\ IsIntText(f.name[3]) /\ IsIntText(f.name[5])

\* lines 303-314: the row (its metrics are those of the file's flow rows)
Row(f) ==
    [protocol |-> f.name[1], nodes |-> ParseInt(f.name[2]),
     speed |-> ParseInt(f.name[3]), traffic |-> f.name[4],
     seed |-> ParseInt(f.name[5]), origin |-> f.origin]

\* lines 283-320: the loop over result_files
AllData(result_files) == {Row(f) : f \in {g \in result_files : YieldsRow(g)}}

ReportFiles == {"aggregate_results.csv", "summary_statistics.json", "plots"}

\* main(), lines 521-538, with the call of analyze_results (lines 279-338)
AnalyzeStage ==
    /\ \/ pc = "analyze"
       \/ pc = "start" /\ mode = "analyze"
    /\ LET result_files == disk     \* results_dir.glob("results_*.csv")
       IN  IF result_files = {}
           THEN /\ msgs' = msgs \cup {"no_result_files"}
                /\ pc' = "done"
                /\ UNCHANGED <<all_data, reports>>
           ELSE IF \E f \in result_files : UnpackRaises(f)
           THEN /\ pc' = "analysis_crashed"
                /\ UNCHANGED <<all_data, msgs, reports>>
           ELSE /\ all_data' = AllData(result_files)
                /\ IF all_data' = {}
                   THEN /\ msgs' = msgs \cup {"no_valid_data", "analysis_completed",
                                              "key_files_generated"}
                        /\ UNCHANGED reports
                   ELSE /\ reports' = ReportFiles
                        /\ msgs' = msgs \cup {"analysis_completed",
                                              "key_files_generated"}
                /\ pc' = "done"
    /\ UNCHANGED <<otherVars, factorVars, params_list, mode, max_workers, poolVars, disk,
                   completed_results, cmpVars>>

(***************************************************************************)
(* The sweep through the pool and the analysis: main() of                  *)
(* rtmhr_evaluation.py on a sweep of one protocol, one node count, one     *)
(* speed, one traffic load and 1..MaxSeeds seeds.                          *)
(***************************************************************************)
NoVerdict == [who |-> "unset", by |-> "none"]

CmpIdle ==
    /\ rtmhr = [pdr |-> 0, throughput |-> 0, delay |-> 0]
    /\ aodv = [pdr |-> 0, throughput |-> 0, delay |-> 0]
    /\ winner = NoVerdict
    /\ winnerX = NoVerdict

AggIdle ==
    /\ df = <<>>
    /\ summary_stats = <<>>

RollupIdle ==
    /\ flow_table = <<>>
    /\ metrics = <<>>
    /\ parsed = FALSE

NoTable == [printed |-> FALSE, rows |-> <<>>]

TestIdle ==
    /\ stdout = <<>>
    /\ test_results = <<>>
    /\ report = <<>>
    /\ table = NoTable
    /\ max_working_nodes = 0

NotComputed == [computed |-> FALSE, num |-> 0, den |-> 1]

NoSummary ==
    [rows |-> <<>>, rtmhr_max_working |-> 0, aodv_max_working |-> 0,
     connected |-> 0, avg_rtmhr_delay |-> NotComputed,
     avg_aodv_delay |-> NotComputed, disconnected |-> 0,
     avg_aodv_pdr |-> NotComputed, avg_aodv_delay_partial |-> NotComputed]

ScalingIdle ==
    /\ cmp_results = <<>>
    /\ cmp_tested = 0
    /\ cmp_pc = "testing"
    /\ cmp_summary = NoSummary

OtherIdle == AggIdle /\ RollupIdle /\ TestIdle /\ ScalingIdle

MainIdle ==
    /\ params_list = <<>>
    /\ pc = "start"
    /\ fut = <<>>
    /\ proc = <<>>
    /\ outcome = <<>>
    /\ log = <<>>
    /\ completed_results = <<>>
    /\ all_data = {}
    /\ msgs = {}
    /\ reports = {}

Init ==
    /\ protocols = <<"rtmhr">>
    /\ node_counts = <<30>>
    /\ speeds = <<50>>
    /\ traffic_loads = <<"low">>
    /\ \E k \in 1..MaxSeeds : seeds = [i \in 1..k |-> i]
    /\ mode \in {"simulate", "analyze", "both"}
    /\ max_workers \in 1..MaxWorkers
    /\ disk \in SUBSET StaleCandidates
    /\ MainIdle
    /\ CmpIdle
    /\ OtherIdle

Next ==
    \/ BuildParams
    \/ Submit
    \/ \E i \in DOMAIN fut : StartTrial(i)
    \/ \E i \in DOMAIN fut : ProcessExits(i)
    \/ \E i \in DOMAIN fut : TimeoutExpires(i)
    \/ \E i \in DOMAIN fut : TerminateTimedOut(i)
    \/ MapRaises
    \/ SweepAborts
    \/ JoinAndFilter
    \/ AnalyzeStage

Spec == Init /\ [][Next]_vars

(***************************************************************************)
(* The parameter space alone: run_all_simulations builds params_list from  *)
(* factor-level lists of every shape (empty, repeated levels, non-integer  *)
(* speeds).                                                                *)
(***************************************************************************)
SpeedLevels == {50, 25, 29}     \* 5, 2.5 and 2.9 m/s

InitParams ==
    /\ protocols \in SeqsUpTo({"rtmhr", "aodv"}, MaxLevels)
    /\ node_counts \in {<<>>, <<30>>, <<30, 50>>}
    /\ speeds \in SeqsUpTo(SpeedLevels, MaxLevels)
    /\ traffic_loads \in {<<>>, <<"low">>, <<"low", "high">>}
    /\ \E k \in 0..MaxLevels : seeds = [i \in 1..k |-> i]
    /\ mode = "both"
    /\ max_workers = 1
    /\ disk = {}
    /\ MainIdle
    /\ CmpIdle
    /\ OtherIdle

\* run_all_simulations up to the dispatch of the trials, and through its
\* return when params_list is empty and there is nothing to wait for
NextParams ==
    \/ BuildParams
    \/ Submit
    \/ JoinAndFilter

SpecParams == InitParams /\ [][NextParams]_vars

(***************************************************************************)
(* The winner rule of scaling_comparison.main (lines 97-112), applied to   *)
(* one pair of records, and to the same pair with the roles exchanged.     *)
(***************************************************************************)
EPS == 10       \* 0.1, in hundredths

Abs(x) == IF x < 0 THEN -x ELSE x

Verdict(who, by) == [who |-> who, by |-> by]

\* a faulty rule: a difference of exactly 0.1 still counts as equal
WinnerInclusive(r, a) ==
    IF Abs(r.pdr - a.pdr) <= EPS
    THEN IF Abs(r.throughput - a.throughput) <= EPS THEN Verdict("TIE", "none")
         ELSE IF r.throughput > a.throughput THEN Verdict("RT-MHR", "throughput")
         ELSE Verdict("AODV", "throughput")
    ELSE IF r.pdr > a.pdr THEN Verdict("RT-MHR", "pdr")
    ELSE Verdict("AODV", "pdr")

\* a faulty rule: equal throughput is not a tie but a win of AODV
WinnerNoTie(r, a) ==
    IF Abs(r.pdr - a.pdr) < EPS
    THEN IF r.throughput > a.throughput THEN Verdict("RT-MHR", "throughput")
         ELSE Verdict("AODV", "throughput")
    ELSE IF r.pdr > a.pdr THEN Verdict("RT-MHR", "pdr")
    ELSE Verdict("AODV", "pdr")

\* r is the record in the role of comparison['rtmhr'], a in that of
\* comparison['aodv']; "by" is the branch that named the winner
Winner(r, a) ==
    IF Abs(r.pdr - a.pdr) < EPS
    THEN IF Abs(r.throughput - a.throughput) < EPS THEN Verdict("TIE", "none")
         ELSE IF r.throughput > a.throughput THEN Verdict("RT-MHR", "throughput")
         ELSE Verdict("AODV", "throughput")
    ELSE IF r.pdr > a.pdr THEN Verdict("RT-MHR", "pdr")
    ELSE Verdict("AODV", "pdr")

\* the protocol a verdict names when the two records were passed exchanged
Exchanged(v) ==
    Verdict(CASE v.who = "RT-MHR" -> "AODV"
              [] v.who = "AODV" -> "RT-MHR"
              [] OTHER -> "TIE", v.by)

DetermineWinner ==
    /\ winner = NoVerdict
    /\ winner' = Winner(rtmhr, aodv)
    /\ UNCHANGED <<otherVars, factorVars, params_list, mode, max_workers, pc, poolVars, disk,
                   completed_results, analysisVars, rtmhr, aodv, winnerX>>

DetermineWinnerExchanged ==
    /\ winnerX = NoVerdict
    /\ winnerX' = Exchanged(Winner(aodv, rtmhr))
    /\ UNCHANGED <<otherVars, factorVars, params_list, mode, max_workers, pc, poolVars, disk,
                   completed_results, analysisVars, rtmhr, aodv, winner>>

MetricValues == {5 * u : u \in 0..MaxUnit}

Records == [pdr : MetricValues, throughput : MetricValues, delay : MetricValues]

InitCompare ==
    /\ protocols = <<"rtmhr", "aodv">>
    /\ node_counts = <<>>
    /\ speeds = <<>>
    /\ traffic_loads = <<>>
    /\ seeds = <<>>
    /\ mode = "both"
    /\ max_workers = 1
    /\ disk = {}
    /\ MainIdle
    /\ OtherIdle
    /\ rtmhr \in Records
    /\ aodv \in Records
    /\ winner = NoVerdict
    /\ winnerX = NoVerdict

NextCompare ==
    \/ DetermineWinner
    \/ DetermineWinnerExchanged

SpecCompare == InitCompare /\ [][NextCompare]_vars

(***************************************************************************)
(* generate_summary_stats: the per-protocol mean and standard deviation of *)
(* the trial metrics.  Metric values are in units of 1e-5, so that the     *)
(* fifth decimal that round(4) drops is visible.                           *)
(***************************************************************************)
MetricColumns == {"avg_throughput", "avg_delay", "avg_pdr"}

MetricLevels ==
    { [avg_throughput |-> 120, avg_delay |-> 500, avg_pdr |-> 900],
      [avg_throughput |-> 127, avg_delay |-> 507, avg_pdr |-> 900],
      [avg_throughput |-> 180, avg_delay |-> 560, avg_pdr |-> 1000] }

DfRows ==
    { [protocol |-> p, avg_throughput |-> l.avg_throughput,
       avg_delay |-> l.avg_delay, avg_pdr |-> l.avg_pdr] :
         p \in {"rtmhr", "aodv"}, l \in MetricLevels }

\* df.groupby('protocol'): the rows of one protocol, in df order
GroupBy(p) == SelectSeq(df, LAMBDA row : row.protocol = p)

RECURSIVE ColSum(_, _, _)
ColSum(g, col, i) ==
    IF i > Len(g) THEN 0 ELSE g[i][col] + ColSum(g, col, i + 1)

RECURSIVE ColSumSq(_, _, _)
ColSumSq(g, col, i) ==
    IF i > Len(g) THEN 0 ELSE g[i][col] * g[i][col] + ColSumSq(g, col, i + 1)

ColSpread(g, col) ==
    LET hi == CHOOSE i \in DOMAIN g : \A j \in DOMAIN g : g[j][col] <= g[i][col]
        lo == CHOOSE i \in DOMAIN g : \A j \in DOMAIN g : g[j][col] >= g[i][col]
    IN  g[hi][col] - g[lo][col]

\* .round(4) of num/den: the nearest multiple of 1e-4, halves to even
Round4(num, den) ==
    LET q == num \div (10 * den)
        r == num - q * 10 * den
    IN  IF 2 * r < 10 * den THEN 10 * q
        ELSE IF 2 * r > 10 * den THEN 10 * (q + 1)
        ELSE IF q % 2 = 0 THEN 10 * q ELSE 10 * (q + 1)

NaN == [nan |-> TRUE, value |-> 0]
Number(v) == [nan |-> FALSE, value |-> v]

\* 'mean', then round(4)
Mean(g, col) == Number(Round4(ColSum(g, col, 1), Len(g)))

\* 'std', then round(4).  pandas computes the sample standard deviation
\* (ddof = 1): NaN for a group of one row, and otherwise the square root of
\* (n * sum(x^2) - sum(x)^2) / (n * (n - 1)).
Std(g, col) ==
    LET n == Len(g)
        vnum == n * ColSumSq(g, col, 1) - ColSum(g, col, 1) * ColSum(g, col, 1)
        vden == n * (n - 1)
    IN  IF n = 1 THEN NaN
        ELSE Number(10 * (CHOOSE k \in 0..(ColSpread(g, col) \div 10 + 1) :
                 /\ k > 0 => (10 * k - 5) * (10 * k - 5) * vden <= vnum
                 /\ vnum < (10 * k + 5) * (10 * k + 5) * vden))

protocol_stats ==
    [p \in {df[i].protocol : i \in DOMAIN df} |->
        [col \in MetricColumns |->
            [mean |-> Mean(GroupBy(p), col), std |-> Std(GroupBy(p), col)]]]

generate_summary_stats ==
    /\ df # <<>>
    /\ summary_stats = <<>>
    /\ summary_stats' = protocol_stats
    /\ UNCHANGED <<df, rollupVars, testVars, scalingVars, factorVars, params_list, mode, max_workers,
                   pc, poolVars, disk, completed_results, analysisVars, cmpVars>>

MaxRows == 3

InitAgg ==
    /\ protocols = <<"rtmhr", "aodv">>
    /\ node_counts = <<>>
    /\ speeds = <<>>
    /\ traffic_loads = <<>>
    /\ seeds = <<>>
    /\ mode = "analyze"
    /\ max_workers = 1
    /\ disk = {}
    /\ MainIdle
    /\ CmpIdle
    /\ RollupIdle
    /\ TestIdle
    /\ ScalingIdle
    /\ \E n \in 1..MaxRows : df \in [1..n -> DfRows]
    /\ summary_stats = <<>>

NextAgg == generate_summary_stats

SpecAgg == InitAgg /\ [][NextAgg]_vars

(***************************************************************************)
(* analyze_results on one result file: the flow rows of the CSV are rolled *)
(* up into one entry of all_data.  PDR is in 120ths and the other metrics  *)
(* in units that make the mean of up to MaxFlows + 1 rows a whole number,  *)
(* so that the division of the mean is exact.                              *)
(***************************************************************************)
FlowRows ==
    { [TxPackets |-> 10, RxPackets |-> 10, Throughput |-> 240, PDR |-> 120, AvgDelay |-> 24],
      [TxPackets |-> 10, RxPackets |-> 5, Throughput |-> 120, PDR |-> 60, AvgDelay |-> 36],
      [TxPackets |-> 10, RxPackets |-> 0, Throughput |-> 0, PDR |-> 0, AvgDelay |-> 0],
      [TxPackets |-> 0, RxPackets |-> 0, Throughput |-> 0, PDR |-> 0, AvgDelay |-> 0] }

\* a faulty mean: the sum of the column
FlowMeanSum(g, col) == ColSum(g, col, 1)

\* df[col].mean()
FlowMean(g, col) == ColSum(g, col, 1) \div Len(g)

\* (df['PDR'] > 0).sum()
SuccessfulFlows(g) == Cardinality({i \in DOMAIN g : g[i].PDR > 0})

FlowMetrics(g) ==
    [protocol |-> "rtmhr", nodes |-> 30, speed |-> 5, traffic |-> "low", seed |-> 1,
     avg_throughput |-> FlowMean(g, "Throughput"),
     avg_delay |-> FlowMean(g, "AvgDelay"),
     avg_pdr |-> FlowMean(g, "PDR"),
     total_flows |-> Len(g),
     successful_flows |-> SuccessfulFlows(g)]

\* the body of the loop over result_files, for a readable CSV
RollUpFile ==
    /\ ~parsed
    /\ parsed' = TRUE
    /\ metrics' = IF flow_table = <<>> THEN metrics
                  ELSE Append(metrics, FlowMetrics(flow_table))
    /\ UNCHANGED <<flow_table, aggVars, testVars, scalingVars, factorVars, params_list, mode,
                   max_workers, pc, poolVars, disk, completed_results,
                   analysisVars, cmpVars>>

MaxFlows == 3

InitRollup ==
    /\ protocols = <<"rtmhr">>
    /\ node_counts = <<30>>
    /\ speeds = <<50>>
    /\ traffic_loads = <<"low">>
    /\ seeds = <<1>>
    /\ mode = "analyze"
    /\ max_workers = 1
    /\ disk = {}
    /\ MainIdle
    /\ CmpIdle
    /\ AggIdle
    /\ TestIdle
    /\ ScalingIdle
    /\ \E n \in 0..MaxFlows : flow_table \in [1..n -> FlowRows]
    /\ metrics = <<>>
    /\ parsed = FALSE

NextRollup == RollUpFile

SpecRollup == InitRollup /\ [][NextRollup]_vars

(***************************************************************************)
(* scaling_test.py: run_simulation parses the simulator's free-text output *)
(* into a metrics dict, and main reports it.  A line of output is its      *)
(* label and the text after the colon (digits and a unit).                 *)
(***************************************************************************)
Text(digits, unit) == [digits |-> digits, unit |-> unit]

Line(label, text) == [label |-> label, text |-> text]

OutputLines ==
    { Line("Packet Delivery Ratio:", Text("100", "%")),
      Line("Packet Delivery Ratio:", Text("50", "%")),
      Line("Packet Delivery Ratio:", Text("n/a", "")),
      Line("Average Throughput:", Text("5", "kbps")),
      Line("Average Delay:", Text("2", "ms")),
      Line("Total Tx Packets:", Text("10", "")),
      Line("Total Rx Packets:", Text("10", "")),
      Line("Simulation finished:", Text("10", "s")) }

\* the dict key and the unit removed by replace(), per recognized label
Labels ==
    [key : {"pdr"}, label : {"Packet Delivery Ratio:"}, unit : {"%"}] \cup
    [key : {"throughput"}, label : {"Average Throughput:"}, unit : {"kbps"}] \cup
    [key : {"delay"}, label : {"Average Delay:"}, unit : {"ms"}] \cup
    [key : {"tx_packets"}, label : {"Total Tx Packets:"}, unit : {""}] \cup
    [key : {"rx_packets"}, label : {"Total Rx Packets:"}, unit : {""}]

Recognized(line) == \E l \in Labels : l.label = line.label

LabelOf(line) == CHOOSE l \in Labels : l.label = line.label

\* text.replace(unit, '')
Replace(text, unit) ==
    IF text.unit = unit THEN Text(text.digits, "") ELSE text

\* float(text) and int(text): ValueError unless the text is a number
IsNumber(text) ==
    /\ text.unit = ""
    /\ \E n \in 0..100 : ToString(n) = text.digits

NumberOf(text) == CHOOSE n \in 0..100 : ToString(n) = text.digits

LineRaises(line) ==
    Recognized(line) /\ ~IsNumber(Replace(line.text, LabelOf(line).unit))

\* metrics[key] = value
SetItem(m, key, value) ==
    [k \in DOMAIN m \cup {key} |-> IF k = key THEN value ELSE m[k]]

\* lines 30-41: the loop over the lines, from line i with metrics m
RECURSIVE ParseLines(_, _, _)
ParseLines(lines, i, m) ==
    IF i > Len(lines) THEN m
    ELSE IF Recognized(lines[i])
         THEN ParseLines(lines, i + 1,
                  SetItem(m, LabelOf(lines[i]).key,
                          NumberOf(Replace(lines[i].text, LabelOf(lines[i]).unit))))
         ELSE ParseLines(lines, i + 1, m)

\* what the simulator did: exit status and output
Run(returncode, lines) == [returncode |-> returncode, lines |-> lines]

\* run_simulation: None, or the metrics dict
None == [none |-> TRUE, metrics |-> <<>>]

Dict(m) == [none |-> FALSE, metrics |-> m]

run_simulation(run) ==
    IF run.returncode # 0 THEN None
    ELSE IF \E i \in DOMAIN run.lines : LineRaises(run.lines[i]) THEN None
    ELSE Dict(ParseLines(run.lines, 1, <<>>))

\* 'if metrics:' is false for None and for the empty dict
Truthy(r) == ~r.none /\ DOMAIN r.metrics # {}

\* metrics.get(key, default)
Get(m, key, default) == IF key \in DOMAIN m THEN m[key] ELSE default

MaxTests == 2

MaxLines == 2

test_sizes == SubSeq(<<3, 4, 5, 6, 8, 10, 12, 15, 18, 20, 25>>, 1, MaxTests)

Failed(nodes) ==
    [nodes |-> nodes, failed |-> TRUE, pdr |-> 0, throughput |-> 0, delay |-> 0]

Reported(nodes, m) ==
    [nodes |-> nodes, failed |-> FALSE, pdr |-> Get(m, "pdr", 0),
     throughput |-> Get(m, "throughput", 0), delay |-> Get(m, "delay", 0)]

\* lines 63-76: one iteration of the loop over test_sizes
TestNodes(run) ==
    /\ ~table.printed
    /\ Len(report) < Len(test_sizes)
    /\ LET nodes == test_sizes[Len(report) + 1]
           r == run_simulation(run)
       IN  /\ stdout' = Append(stdout, run)
           /\ IF Truthy(r)
              THEN /\ test_results' = Append(test_results, <<nodes, r.metrics>>)
                   /\ report' = Append(report, Reported(nodes, r.metrics))
              ELSE /\ test_results' = test_results
                   /\ report' = Append(report, Failed(nodes))
    /\ UNCHANGED <<table, max_working_nodes, aggVars, rollupVars, scalingVars, factorVars,
                   params_list, mode, max_workers, pc, poolVars, disk,
                   completed_results, analysisVars, cmpVars>>

TableRow(nodes, m) ==
    [nodes |-> nodes, pdr |-> Get(m, "pdr", 0),
     throughput |-> Get(m, "throughput", 0), delay |-> Get(m, "delay", 0),
     status |-> IF Get(m, "pdr", 0) = 100 THEN "PASS" ELSE "FAIL"]

Max(a, b) == IF a >= b THEN a ELSE b

RECURSIVE MaxWorking(_, _)
MaxWorking(i, acc) ==
    IF i > Len(test_results) THEN acc
    ELSE IF Get(test_results[i][2], "pdr", 0) = 100
         THEN MaxWorking(i + 1, Max(acc, test_results[i][1]))
         ELSE MaxWorking(i + 1, acc)

\* lines 78-97: the summary table and the largest working network
PrintSummary ==
    /\ ~table.printed
    /\ Len(report) = Len(test_sizes)
    /\ table' = [printed |-> TRUE,
                 rows |-> [i \in DOMAIN test_results |->
                              TableRow(test_results[i][1], test_results[i][2])]]
    /\ max_working_nodes' = MaxWorking(1, 0)
    /\ UNCHANGED <<stdout, test_results, report, aggVars, rollupVars, scalingVars, factorVars,
                   params_list, mode, max_workers, pc, poolVars, disk,
                   completed_results, analysisVars, cmpVars>>

Runs ==
    { Run(1, <<>>) } \cup
    { Run(0, lines) : lines \in UNION { [1..n -> OutputLines] : n \in 0..MaxLines } }

InitTest ==
    /\ protocols = <<"rtmhr">>
    /\ node_counts = <<>>
    /\ speeds = <<>>
    /\ traffic_loads = <<>>
    /\ seeds = <<>>
    /\ mode = "both"
    /\ max_workers = 1
    /\ disk = {}
    /\ MainIdle
    /\ CmpIdle
    /\ AggIdle
    /\ RollupIdle
    /\ TestIdle
    /\ ScalingIdle

NextTest ==
    \/ \E run \in Runs : TestNodes(run)
    \/ PrintSummary

SpecTest == InitTest /\ [][NextTest]_vars

(***************************************************************************)
(* scaling_comparison.py: run_comparison parses the two result lines of    *)
(* the comparative evaluation, and main keeps and summarizes them.  A line *)
(* of output is its parts (line.split()); metrics are in hundredths.       *)
(***************************************************************************)
Header == <<"=== Comparative Results ===">>

ResultLine(head, pdr, throughput, delay) ==
    <<head, pdr, throughput, 0, delay, 10, pdr \div 1000>>

ComparisonLines ==
    { Header,
      <<"Simulation finished">>,
      <<"RTMHR">>,
      ResultLine("RTMHR", 10000, 500, 400),
      ResultLine("RTMHR", 0, 0, 0),
      ResultLine("AODV", 10000, 500, 600),
      ResultLine("AODV", 5000, 300, 900),
      ResultLine("AODV", 0, 0, 0) }

\* parts[k] of Python is parts[k + 1] here; IndexError on a short line
PartsRaise(parts) == Len(parts) < 7

ProtocolRecord(parts) ==
    [pdr |-> parts[2], throughput |-> parts[3], delay |-> parts[5],
     tx_packets |-> parts[6], rx_packets |-> parts[7]]

\* lines 34-59: the loop over the lines, from line i, with the results dict
\* r and the flag in_results
RECURSIVE ParseComparison(_, _, _, _)
ParseComparison(lines, i, r, in_results) ==
    IF i > Len(lines) THEN Dict(r)
    ELSE LET parts == lines[i]
         IN  IF parts = Header
               THEN ParseComparison(lines, i + 1, r, TRUE)
             ELSE IF in_results /\ parts[1] = "RTMHR"
               THEN IF PartsRaise(parts) THEN None
                    ELSE ParseComparison(lines, i + 1,
                             SetItem(r, "rtmhr", ProtocolRecord(parts)), in_results)
             ELSE IF in_results /\ parts[1] = "AODV"
               THEN IF PartsRaise(parts) THEN None
                    ELSE Dict(SetItem(r, "aodv", ProtocolRecord(parts)))
             ELSE ParseComparison(lines, i + 1, r, in_results)

run_comparison(run) ==
    IF run.returncode # 0 THEN None
    ELSE ParseComparison(run.lines, 1, <<>>, FALSE)

MaxOutput == 3

ComparisonRuns ==
    { Run(1, <<>>) } \cup
    { Run(0, lines) :
        lines \in UNION { [1..n -> ComparisonLines] : n \in 0..MaxOutput } }

cmp_test_sizes == SubSeq(<<5, 10, 15, 20, 24, 25, 30>>, 1, MaxTests)

\* lines 79-91: one iteration of the loop over test_sizes.  The comparison
\* is appended before its 'rtmhr' and 'aodv' records are read (KeyError).
CompareNodes(run) ==
    /\ cmp_pc = "testing"
    /\ cmp_tested < Len(cmp_test_sizes)
    /\ cmp_tested' = cmp_tested + 1
    /\ LET nodes == cmp_test_sizes[cmp_tested + 1]
           comparison == run_comparison(run)
       IN  IF Truthy(comparison)
           THEN /\ cmp_results' = Append(cmp_results, <<nodes, comparison.metrics>>)
                /\ cmp_pc' = IF {"rtmhr", "aodv"} \subseteq DOMAIN comparison.metrics
                             THEN cmp_pc ELSE "KeyError"
           ELSE UNCHANGED <<cmp_results, cmp_pc>>
    /\ UNCHANGED <<cmp_summary, aggVars, rollupVars, testVars, factorVars,
                   params_list, mode, max_workers, pc, poolVars, disk,
                   completed_results, analysisVars, cmpVars>>

PerfectPdr == 9900      \* 99, in hundredths

RECURSIVE MaxWorkingOf(_, _, _)
MaxWorkingOf(who, i, acc) ==
    IF i > Len(cmp_results) THEN acc
    ELSE IF cmp_results[i][2][who].pdr >= PerfectPdr
         THEN MaxWorkingOf(who, i + 1, Max(acc, cmp_results[i][1]))
         ELSE MaxWorkingOf(who, i + 1, acc)

\* lines 93-128: the table with the winner of every size, and the largest
\* working size of each protocol
PrintTable ==
    /\ cmp_pc = "testing"
    /\ cmp_tested = Len(cmp_test_sizes)
    /\ cmp_pc' = "table_printed"
    /\ cmp_summary' =
          [cmp_summary EXCEPT
             !.rows = [i \in DOMAIN cmp_results |->
                          [nodes |-> cmp_results[i][1],
                           winner |-> Winner(cmp_results[i][2]["rtmhr"],
                                             cmp_results[i][2]["aodv"]).who]],
             !.rtmhr_max_working = MaxWorkingOf("rtmhr", 1, 0),
             !.aodv_max_working = MaxWorkingOf("aodv", 1, 0)]
    /\ UNCHANGED <<cmp_results, cmp_tested, aggVars, rollupVars, testVars,
                   factorVars, params_list, mode, max_workers, pc, poolVars,
                   disk, completed_results, analysisVars, cmpVars>>

\* lines 146-150
connected_performance ==
    SelectSeq(cmp_results, LAMBDA e : e[2]["rtmhr"].pdr >= PerfectPdr)

disconnected_performance ==
    SelectSeq(cmp_results, LAMBDA e : ~(e[2]["rtmhr"].pdr >= PerfectPdr))

\* sum(c[who][key] for _, c in cases), from case i
RECURSIVE SumOver(_, _, _, _)
SumOver(cases, who, key, i) ==
    IF i > Len(cases) THEN 0
    ELSE cases[i][2][who][key] + SumOver(cases, who, key, i + 1)

\* num / den; a zero den raises ZeroDivisionError
Quotient(num, den) == [computed |-> TRUE, num |-> num, den |-> den]

AodvDelivering(cases) == SelectSeq(cases, LAMBDA e : e[2]["aodv"].pdr > 0)

\* lines 142-166: the averages over the fully and the partially connected
\* cases
PerformanceSummary ==
    /\ cmp_pc = "table_printed"
    /\ LET con == connected_performance
           dis == disconnected_performance
           withCon ==
             IF con # <<>>
             THEN [cmp_summary EXCEPT
                     !.connected = Len(con),
                     !.avg_rtmhr_delay = Quotient(SumOver(con, "rtmhr", "delay", 1), Len(con)),
                     !.avg_aodv_delay = Quotient(SumOver(con, "aodv", "delay", 1), Len(con))]
             ELSE cmp_summary
       IN  IF dis = <<>>
           THEN /\ cmp_summary' = withCon
                /\ cmp_pc' = "done"
           ELSE IF Len(AodvDelivering(dis)) = 0
           THEN /\ cmp_summary' =
                     [withCon EXCEPT
                        !.disconnected = Len(dis),
                        !.avg_aodv_pdr = Quotient(SumOver(dis, "aodv", "pdr", 1), Len(dis))]
                /\ cmp_pc' = "ZeroDivisionError"
           ELSE /\ cmp_summary' =
                     [withCon EXCEPT
                        !.disconnected = Len(dis),
                        !.avg_aodv_pdr = Quotient(SumOver(dis, "aodv", "pdr", 1), Len(dis)),
                        !.avg_aodv_delay_partial =
                            Quotient(SumOver(AodvDelivering(dis), "aodv", "delay", 1),
                                     Len(AodvDelivering(dis)))]
                /\ cmp_pc' = "done"
    /\ UNCHANGED <<cmp_results, cmp_tested, aggVars, rollupVars, testVars,
                   factorVars, params_list, mode, max_workers, pc, poolVars,
                   disk, completed_results, analysisVars, cmpVars>>

InitScaling ==
    /\ protocols = <<"rtmhr", "aodv">>
    /\ node_counts = <<>>
    /\ speeds = <<>>
    /\ traffic_loads = <<>>
    /\ seeds = <<>>
    /\ mode = "both"
    /\ max_workers = 1
    /\ disk = {}
    /\ MainIdle
    /\ CmpIdle
    /\ AggIdle
    /\ RollupIdle
    /\ TestIdle
    /\ ScalingIdle

NextScaling ==
    \/ \E run \in ComparisonRuns : CompareNodes(run)
    \/ PrintTable
    \/ PerformanceSummary

SpecScaling == InitScaling /\ [][NextScaling]_vars

(***************************************************************************)
(* Properties.                                                             *)
(***************************************************************************)
Product == Len(protocols) * Len(node_counts) * Len(speeds)
             * Len(traffic_loads) * Len(seeds)

NoRepeatedLevel ==
    /\ NoRepeats(protocols) /\ NoRepeats(node_counts) /\ NoRepeats(speeds)
    /\ NoRepeats(traffic_loads) /\ NoRepeats(seeds)

\* C1: for factor-level lists of sizes p, n, s, t, k with no repeated level
\* inside a list, params_list holds exactly p*n*s*t*k tuples and no two of
\* them are equal.  (SpecParams)
C1_ParameterSpaceIsProduct ==
    (pc = "built" /\ NoRepeatedLevel) =>
        /\ Len(params_list) = Product
        /\ NoRepeats(params_list)

C1_Witness ==
    /\ pc = "built" /\ NoRepeatedLevel
    /\ Len(protocols) = 2 /\ Len(node_counts) = 2 /\ Len(speeds) = 2
    /\ Len(traffic_loads) = 2 /\ Len(seeds) = 2
    /\ Len(params_list) = 32

\* trial i ran past its timeout
TimedOut(i) == proc[i] \in {"timedout", "killed"}

\* the simulator process of trial i exists
ProcessExists(i) == proc[i] \in {"alive", "timedout"}

\* C2: a trial whose simulator exceeds the timeout ends with the timeout
\* failure (None, "Simulation timed out"), never with a result; its process
\* exists only while its call still holds a worker, and is killed and reaped
\* when the outcome is returned; and while it runs or is being terminated,
\* every other running trial can complete and the next pending trial can
\* start whenever a worker is free.
C2_TimeoutIsLocalFailure ==
    \A i \in DOMAIN fut :
        /\ (TimedOut(i) /\ fut[i] = "FINISHED") =>
              /\ outcome[i] = ReturnedNone
              /\ log[i] = "timeout"
              /\ proc[i] = "killed"
        /\ ProcessExists(i) => fut[i] = "RUNNING"
        /\ (TimedOut(i) /\ fut[i] = "RUNNING") =>
              \A u \in DOMAIN fut \ {i} :
                  /\ proc[u] = "alive" => ENABLED ProcessExits(u)
                  /\ (NextPending(u) /\ Busy < max_workers) => ENABLED StartTrial(u)

C2_Witness ==
    \E i, u \in DOMAIN fut :
        /\ i < u
        /\ proc[i] = "killed" /\ fut[i] = "FINISHED" /\ outcome[i] = ReturnedNone
        /\ outcome[u].kind = "file"
        /\ pc = "done"

\* the trials of this sweep whose run_single_simulation returned a result file
Succeeded == {i \in DOMAIN outcome : outcome[i].kind = "file"}

\* the simulator of trial i wrote well-formed flow rows
WroteRows(i) == File(ResultFileWritten(params_list[i]), "rows", "run") \in disk

\* the row of the aggregate table that trial i of this sweep gives
TrialRow(i) ==
    [protocol |-> params_list[i][1], nodes |-> params_list[i][2],
     speed |-> params_list[i][3] \div 10, traffic |-> params_list[i][4],
     seed |-> params_list[i][5], origin |-> "run"]

\* C3: when some trials of a sweep fail and S >= 1 succeed (each leaving
\* well-formed rows), the aggregate table the simulate-then-analyze pipeline
\* writes is non-empty and holds exactly the rows of the S trials that
\* succeeded in this sweep: none for a failed trial, none taken from an
\* artifact of an earlier run, none missing.
C3_TableFromExactlyTheSuccesses ==
    (/\ pc = "done" /\ mode = "both"
     /\ Succeeded # {}
     /\ \A i \in Succeeded : WroteRows(i)) =>
        /\ "aggregate_results.csv" \in reports
        /\ all_data = {TrialRow(i) : i \in Succeeded}

\* C4: a failure inside one trial (timeout, exit status, launch or script
\* I/O error) becomes that trial's failure outcome only: no exception leaves
\* run_single_simulation, the sweep is not aborted and no other trial is
\* left unexecuted.
C4_TrialFailuresStayLocal ==
    /\ \A i \in DOMAIN fut : outcome[i] # Raised /\ fut[i] # "CANCELLED"
    /\ pc \notin {"raising", "sweep_crashed"}

\* C5: at most max_workers calls of run_single_simulation are in progress,
\* and whenever fewer are in progress and a trial is still pending, a
\* trial can start.
C5_PoolBound ==
    /\ Busy <= max_workers
    /\ (Busy < max_workers /\ \E i \in DOMAIN fut : fut[i] = "PENDING") =>
           \E i \in DOMAIN fut : ENABLED StartTrial(i)

C5_Witness ==
    /\ max_workers = 2
    /\ Busy = max_workers
    /\ \E i \in DOMAIN fut : fut[i] = "PENDING"

Higher(x, y) == IF x > y THEN "RT-MHR" ELSE "AODV"

Lower(x, y) == IF x < y THEN "RT-MHR" ELSE "AODV"

\* C6 as stated: three tiers in order with tolerance 0.1 - pdr (higher
\* wins), throughput (higher wins), delay (lower wins) - otherwise a tie.
C6_ThreeTierRule ==
    winner # NoVerdict =>
        winner.who =
            IF Abs(rtmhr.pdr - aodv.pdr) >= EPS THEN Higher(rtmhr.pdr, aodv.pdr)
            ELSE IF Abs(rtmhr.throughput - aodv.throughput) >= EPS
                 THEN Higher(rtmhr.throughput, aodv.throughput)
            ELSE IF Abs(rtmhr.delay - aodv.delay) >= EPS
                 THEN Lower(rtmhr.delay, aodv.delay)
            ELSE "TIE"

\* C6 amended: two tiers in order with tolerance 0.1 - pdr (higher wins),
\* then throughput (higher wins) - otherwise a tie; delay is not consulted.
C6_TwoTierRule ==
    winner # NoVerdict =>
        /\ Abs(rtmhr.pdr - aodv.pdr) >= EPS =>
              winner = Verdict(Higher(rtmhr.pdr, aodv.pdr), "pdr")
        /\ (Abs(rtmhr.pdr - aodv.pdr) < EPS
              /\ Abs(rtmhr.throughput - aodv.throughput) >= EPS) =>
              winner = Verdict(Higher(rtmhr.throughput, aodv.throughput), "throughput")
        /\ (Abs(rtmhr.pdr - aodv.pdr) < EPS
              /\ Abs(rtmhr.throughput - aodv.throughput) < EPS) =>
              winner.who = "TIE"

C6_Witness ==
    /\ winner.who = "TIE"
    /\ Abs(rtmhr.pdr - aodv.pdr) < EPS
    /\ Abs(rtmhr.throughput - aodv.throughput) < EPS
    /\ Abs(rtmhr.delay - aodv.delay) >= EPS

\* C7: evaluating the winner rule with the two protocols exchanged names the
\* same protocol as winner (or a tie both times), decided by the same metric.
C7_ExchangeSymmetric ==
    (winner # NoVerdict /\ winnerX # NoVerdict) => winner = winnerX

C7_Witness ==
    /\ winner = Verdict("AODV", "throughput")
    /\ winnerX # NoVerdict
    /\ rtmhr.pdr # aodv.pdr

\* C8: parsing one result artifact never raises past the parser: whatever
\* the files are (malformed value, missing column, no row, a name that does
\* not split into five fields), analyze_results skips the file and goes on.
C8_ParsingNeverRaises ==
    pc # "analysis_crashed"

\* C9: when a sweep ends with no trial that yields metrics and the analysis
\* finds no row, the analysis reports "no data": it writes no report and
\* announces neither that the analysis completed nor that report files were
\* generated.
C9_NoDataIsReported ==
    (/\ pc = "done" /\ mode = "both"
     /\ \A i \in Succeeded : ~WroteRows(i)
     /\ all_data = {}) =>
        /\ reports = {}
        /\ msgs \cap {"no_result_files", "no_valid_data"} # {}
        /\ msgs \cap {"analysis_completed", "key_files_generated"} = {}

\* C10: the artifact names (script, scratch copy, result CSV) are injective
\* over the sweep's TrialSpecs, non-integer speeds included, and the result
\* file name run_single_simulation returns is the one the simulator writes.
C10_ArtifactNamesInjective ==
    pc = "built" =>
        /\ \A i, j \in Trials :
              params_list[i] # params_list[j] =>
                  /\ ScriptFile(params_list[i]) # ScriptFile(params_list[j])
                  /\ ScratchFile(params_list[i]) # ScratchFile(params_list[j])
                  /\ ResultFileWritten(params_list[i]) # ResultFileWritten(params_list[j])
        /\ \A i \in Trials :
              ResultFileReturned(params_list[i]) = ResultFileWritten(params_list[i])

\* C11: when a factor-level list is empty, the sweep fails with a
\* configuration error: run_all_simulations never runs zero trials and
\* returns (an empty result list) as if the sweep had been done.
C11_EmptyFactorListIsError ==
    Product = 0 => pc # "analyze"

\* C12: in the per-protocol summary, a group of a single trial has
\* sample_count = 1 and std = 0 for every metric, and a group of N identical
\* trials has mean equal to the trials' value and std = 0 for every metric.
Zero == Number(0)

Identical(g) ==
    \A i, j \in DOMAIN g : \A col \in MetricColumns : g[i][col] = g[j][col]

C12_SingleOrIdenticalGroupHasZeroStd ==
    \A p \in DOMAIN summary_stats :
        LET g == GroupBy(p)
            stats == summary_stats[p]
        IN  /\ Len(g) = 1 =>
                  /\ \A col \in MetricColumns : stats[col].std = Zero
                  /\ "sample_count" \in DOMAIN stats
                  /\ stats["sample_count"] = 1
            /\ Identical(g) =>
                  \A col \in MetricColumns :
                      /\ stats[col].mean = Number(g[1][col])
                      /\ stats[col].std = Zero

\* C13: a result table with one or more flow rows is rolled up into metrics
\* that are the arithmetic mean across rows for throughput, delay and pdr
\* and the sum across rows for the tx/rx packet counts; a table with zero
\* rows yields a no_flows parse failure and no metrics.
RECURSIVE Total(_, _)
Total(S, col) ==
    IF S = {} THEN 0
    ELSE LET i == CHOOSE j \in S : TRUE
         IN  flow_table[i][col] + Total(S \ {i}, col)

MeansByHand(m) ==
    /\ m.avg_throughput * Len(flow_table) = Total(DOMAIN flow_table, "Throughput")
    /\ m.avg_delay * Len(flow_table) = Total(DOMAIN flow_table, "AvgDelay")
    /\ m.avg_pdr * Len(flow_table) = Total(DOMAIN flow_table, "PDR")

LabelAbsent(run, key) ==
    \A i \in DOMAIN run.lines :
        \A l \in Labels : l.key = key => run.lines[i].label # l.label

RunOf(nodes) == stdout[CHOOSE i \in DOMAIN test_sizes : test_sizes[i] = nodes]

WithoutUnrecognized(lines) == SelectSeq(lines, Recognized)

C14_AbsentLabelLeftUnset ==
    \A i \in DOMAIN test_results :
        \A key \in {"pdr", "throughput", "delay"} :
            LabelAbsent(RunOf(test_results[i][1]), key) => key \notin DOMAIN test_results[i][2]

C14_AbsentLabelNeverZero ==
    /\ C14_AbsentLabelLeftUnset
    /\ \A i \in DOMAIN test_results :
          run_simulation(Run(0, WithoutUnrecognized(RunOf(test_results[i][1]).lines)))
              = Dict(test_results[i][2])
    /\ \A i \in DOMAIN report :
          \A key \in {"pdr", "throughput", "delay"} :
              ~report[i].failed /\ LabelAbsent(stdout[i], key) => report[i][key] # 0
    /\ \A i \in DOMAIN table.rows :
          /\ \A key \in {"pdr", "throughput", "delay"} :
                LabelAbsent(RunOf(table.rows[i].nodes), key) => table.rows[i][key] # 0
          /\ LabelAbsent(RunOf(table.rows[i].nodes), "pdr") =>
                table.rows[i].status # "FAIL"

\* C15: in run_all_simulations the outcomes are filtered into
\* completed_results only after every dispatched trial has reached its final
\* outcome: when the results are collected no trial is pending or running,
\* no simulator process is left, every trial of params_list has an outcome
\* that no later step changes, and completed_results holds exactly the
\* result files of the trials that succeeded.
Collected == mode # "analyze" /\ pc \in {"analyze", "done", "analysis_crashed"}

C15_CollectAfterJoin ==
    /\ Collected =>
          /\ DOMAIN fut = DOMAIN params_list
          /\ \A i \in DOMAIN fut :
                /\ fut[i] = "FINISHED"
                /\ ~ProcessExists(i)
                /\ outcome[i] \in {ReturnedNone, ReturnedFile(ResultFileReturned(params_list[i]))}
          /\ Len(completed_results) = Cardinality(Succeeded)
          /\ \A i \in Succeeded : \E k \in DOMAIN completed_results :
                completed_results[k] = outcome[i].name
    /\ ~Collected => completed_results = <<>>

C15_Witness ==
    /\ pc = "analyze"
    /\ max_workers = 2
    /\ Len(fut) = 3
    /\ outcome[1] = ReturnedNone /\ proc[1] = "killed"
    /\ outcome[2].kind = "file"
    /\ outcome[3].kind = "file"
    /\ Len(completed_results) = 2

\* C16: in the scaling comparison every result that main keeps contains a
\* complete record for both protocols, 'rtmhr' and 'aodv': whatever the
\* simulator printed with exit status zero, run_comparison returns both
\* records or a value that main reports as FAILED, so that main never reads
\* a missing protocol record.
C16_KeptResultsComplete ==
    /\ \A i \in DOMAIN cmp_results :
          {"rtmhr", "aodv"} \subseteq DOMAIN cmp_results[i][2]
    /\ cmp_pc # "KeyError"

\* C17: the scaling-comparison summary never divides by zero: whatever the
\* collected results, also when every partially connected case (RT-MHR
\* pdr < 99) has AODV pdr = 0, the average AODV delay over the partially
\* connected cases is computed without an error.
C17_SummaryNeverDividesByZero ==
    /\ cmp_pc # "ZeroDivisionError"
    /\ cmp_pc = "done" /\ cmp_summary.disconnected > 0 =>
          /\ cmp_summary.avg_aodv_delay_partial.computed
          /\ cmp_summary.avg_aodv_delay_partial.den > 0

====
